---- MODULE Spec2Model ----
(***************************************************************************)
(* Model of parsers/AU_capacity.py: a one-shot script that loads the       *)
(* OpenNEM facility registry from a cache file or over HTTP, totals the    *)
(* registered capacity of commissioned facilities by zone and fuel type,   *)
(* and prints a zones.json snippet.                                        *)
(*                                                                         *)
(* Representation choices.                                                 *)
(*  - Time is counted in whole days.                                       *)
(*  - A text (file contents, HTTP body) is a record: its kind ("None" for  *)
(*    Python's None, "empty", "garbage" for non-empty text that is not     *)
(*    JSON, "json"), and for JSON the value it denotes.                    *)
(*  - A string that is tested with startswith is the sequence of its       *)
(*    pieces between underscores: "gas_ocgt" is <<"gas", "ocgt">>, "gas"   *)
(*    is <<"gas">>.  <<>> stands for None.                                 *)
(*  - A natural number of arbitrary size is the sequence of its decimal    *)
(*    digits, most significant first.  A float is num / 2^pow (the         *)
(*    reduced ratio of float.as_integer_ratio), a Decimal is               *)
(*    digs * 10^exp.  Only non-negative numbers occur.                     *)
(*  - The registry is a sequence of facilities (a JSON object in document  *)
(*    order); duid_data is a sequence of units.  Every facility carries    *)
(*    the keys the script reads (station_id, status.state, region_id,      *)
(*    duid_data); a unit may lack fuel_tech.                               *)
(***************************************************************************)
EXTENDS Integers, Sequences, FiniteSets, TLC

VARIABLES
    clock,          \* wall clock, in days
    cacheExists,    \* os.path.exists(CACHE_FILE)
    cacheMtime,     \* os.stat(CACHE_FILE).st_mtime
    cacheText,      \* contents of CACHE_FILE
    pc,             \* position of the script
    exc,            \* the uncaught exception that ended the run, or "none"
    facility_data,  \* the script's facility_data
    facilities,     \* the script's facilities
    http_requests,  \* calls of requests.get made by this run
    zones,          \* the script's zones: zone code -> OpenNEMZone
    idx,            \* facilities consumed by the for loop
    printed         \* documents printed by this run

vars == <<clock, cacheExists, cacheMtime, cacheText, pc, exc, facility_data,
          facilities, http_requests, zones, idx, printed>>

cacheVars == <<cacheExists, cacheMtime, cacheText>>

(***************************************************************************)
(* Bounds of the model.                                                    *)
(***************************************************************************)
MaxClock == 8
MaxUnits == 2
MaxFacilities == 3

(***************************************************************************)
(* Arbitrary-size naturals as digit sequences.                             *)
(***************************************************************************)
Zeros(zn) == <<>> \o [zi \in 1..zn |-> 0]

MinOf(S) == CHOOSE i \in S : \A j \in S : i <= j
MaxOf(S) == CHOOSE i \in S : \A j \in S : i >= j

StripLead(d) ==
    LET nz == {i \in 1..Len(d) : d[i] # 0}
    IN IF nz = {} THEN <<0>> ELSE SubSeq(d, MinOf(nz), Len(d))

IsZeroDigs(d) == \A i \in 1..Len(d) : d[i] = 0

RECURSIVE IntDigits(_)
IntDigits(n) == IF n < 10 THEN <<n>> ELSE Append(IntDigits(n \div 10), n % 10)

RECURSIVE DigsToInt(_, _)
DigsToInt(d, i) == IF i = 0 THEN 0 ELSE DigsToInt(d, i - 1) * 10 + d[i]

\* 2 * d: the carry into a digit is 1 exactly when the digit to its right is >= 5
Double(d) ==
    LET n == Len(d)
        r == <<>> \o [i \in 1..n |->
                 (2 * d[i] + IF i < n /\ d[i + 1] >= 5 THEN 1 ELSE 0) % 10]
    IN IF d[1] >= 5 THEN <<1>> \o r ELSE r

\* d \div 2
Halve(d) ==
    StripLead(<<>> \o [i \in 1..Len(d) |->
                 (d[i] + IF i > 1 /\ d[i - 1] % 2 = 1 THEN 10 ELSE 0) \div 2])

\* x + y, with the carries looked ahead
AddDigs(x, y) ==
    LET n == IF Len(x) > Len(y) THEN Len(x) ELSE Len(y)
        a == Zeros(n - Len(x)) \o x
        b == Zeros(n - Len(y)) \o y
        carry(i) == \E j \in (i + 1)..n :
                        /\ a[j] + b[j] >= 10
                        /\ \A k \in (i + 1)..(j - 1) : a[k] + b[k] = 9
        r == <<>> \o [i \in 1..n |-> (a[i] + b[i] + IF carry(i) THEN 1 ELSE 0) % 10]
    IN IF carry(0) THEN <<1>> \o r ELSE r

\* x < y, for digit sequences without leading zeros
LessDigs(x, y) ==
    \/ Len(x) < Len(y)
    \/ /\ Len(x) = Len(y)
       /\ \E i \in 1..Len(x) : x[i] < y[i] /\ \A k \in 1..(i - 1) : x[k] = y[k]

\* d / 10^n rounded to an integer, ties to even
RoundDrop(d, n) ==
    IF n = 0 THEN d
    ELSE LET p == Zeros(IF n + 1 > Len(d) THEN n + 1 - Len(d) ELSE 0) \o d
             keep == SubSeq(p, 1, Len(p) - n)
             rest == SubSeq(p, Len(p) - n + 1, Len(p))
             tailz == \A i \in 2..n : rest[i] = 0
             up == \/ rest[1] > 5
                   \/ rest[1] = 5 /\ ~tailz
                   \/ rest[1] = 5 /\ tailz /\ keep[Len(keep)] % 2 = 1
         IN StripLead(IF up THEN AddDigs(keep, <<1>>) ELSE keep)

Double8(d) == Double(Double(Double(Double(Double(Double(Double(Double(d))))))))
Halve8(d) == Halve(Halve(Halve(Halve(Halve(Halve(Halve(Halve(d))))))))

\* d / 2^n
RECURSIVE HalveN(_, _)
HalveN(d, n) ==
    IF Len(d) > 0 /\ n >= 8 THEN HalveN(Halve8(d), n - 8)
    ELSE IF n > 0 THEN HalveN(Halve(d), n - 1)
    ELSE d

(***************************************************************************)
(* decimal.Decimal under the default context, and binary floats.           *)
(***************************************************************************)
Dec(d, e) == [digs |-> d, exp |-> e]
Flt(m, k) == [num |-> m, pow |-> k]

\* the default context of the decimal module: prec=28, ROUND_HALF_EVEN
PREC == 28

\* 2^53
TWO53 == <<9,0,0,7,1,9,9,2,5,4,7,4,0,9,9,2>>

\* Decimal._fix: round the coefficient to PREC significant digits
Fix(a) ==
    IF Len(a.digs) <= PREC THEN a
    ELSE LET n == Len(a.digs) - PREC
             r == RoundDrop(a.digs, n)
         IN IF Len(r) > PREC THEN Dec(SubSeq(r, 1, PREC), a.exp + n + 1)
            ELSE Dec(r, a.exp + n)

Rescale(a, e) == IF IsZeroDigs(a.digs) THEN <<0>> ELSE a.digs \o Zeros(a.exp - e)

\* Decimal.__add__: the exact sum at the smaller exponent, then the context's rounding
DecAdd(a, b) ==
    LET e == IF a.exp < b.exp THEN a.exp ELSE b.exp
    IN Fix(Dec(AddDigs(Rescale(a, e), Rescale(b, e)), e))

\* decimal.Decimal(): zero
DecZero == Dec(<<0>>, 0)

\* decimal.Decimal(float): exact, num * 5^pow with exponent -pow
Decimal(x) == Dec(HalveN(x.num \o Zeros(x.pow), x.pow), -x.pow)

\* <<m, n>> with m = c * 2^n and c * 2^n < limit <= c * 2^(n+1)
RECURSIVE Scale2(_, _, _)
Scale2(c, n, limit) ==
    IF LessDigs(Double8(c), limit) THEN Scale2(Double8(c), n + 8, limit)
    ELSE IF LessDigs(Double(c), limit) THEN Scale2(Double(c), n + 1, limit)
    ELSE <<c, n>>

\* m / 2^n as a reduced ratio
RECURSIVE Reduce(_, _)
Reduce(m, n) ==
    IF n > 0 /\ m[Len(m)] % 2 = 0 THEN Reduce(Halve(m), n - 1) ELSE Flt(m, n)

\* float(v) for a Decimal 0 <= v < 2^53: the nearest double, ties to even
NearestDouble(a) ==
    IF IsZeroDigs(a.digs) THEN Flt(<<0>>, 0)
    ELSE LET coef == StripLead(IF a.exp > 0 THEN a.digs \o Zeros(a.exp) ELSE a.digs)
             frac == IF a.exp > 0 THEN 0 ELSE -a.exp
             sc == Scale2(coef, 0, TWO53 \o Zeros(frac))
         IN Reduce(RoundDrop(sc[1], frac), sc[2])

\* round(x, 2) of a float: correctly rounded, ties to even; in hundredths
Round2(x) ==
    LET v == Decimal(x)
        h == IF v.exp > -2 THEN v.digs \o Zeros(v.exp + 2)
             ELSE RoundDrop(v.digs, -v.exp - 2)
    IN DigsToInt(h, Len(h))

\* the float json.loads makes of the number literal n * 10^e (e <= 0)
JsonFloat(n, e) == NearestDouble(Dec(IntDigits(n), e))

(***************************************************************************)
(* Module-level data of the script.                                        *)
(***************************************************************************)
PRICE_MAPPING_DICTIONARY ==
    [k \in {"AUS-NSW", "AUS-QLD", "AUS-SA", "AUS-TAS", "AUS-VIC", "AUS-WA"} |->
        CASE k = "AUS-NSW" -> "NSW1"
          [] k = "AUS-QLD" -> "QLD1"
          [] k = "AUS-SA"  -> "SA1"
          [] k = "AUS-TAS" -> "TAS1"
          [] k = "AUS-VIC" -> "VIC1"
          [] k = "AUS-WA"  -> "WA1"]

\* {v: k for k, v in PRICE_MAPPING_DICTIONARY.items()}
zone_map ==
    [v \in {PRICE_MAPPING_DICTIONARY[k] : k \in DOMAIN PRICE_MAPPING_DICTIONARY} |->
        CHOOSE k \in DOMAIN PRICE_MAPPING_DICTIONARY : PRICE_MAPPING_DICTIONARY[k] = v]

\* coordinates in units of 0.0001 degree
STATE_BOUNDING_BOXES ==
    [z \in {"NSW1", "NT1", "QLD1", "SA1", "TAS1", "VIC1", "WA1"} |->
        CASE z = "NSW1" -> <<<<1482695, -364196>>, <<1499044, -346395>>>>
          [] z = "NT1"  -> <<<<1285001, -264999>>, <<1385002, -104684>>>>
          [] z = "QLD1" -> <<<<1375002, -296706>>, <<1540488, -87402>>>>
          [] z = "SA1"  -> <<<<1285001, -385706>>, <<1415001, -254999>>>>
          [] z = "TAS1" -> <<<<1433372, -441413>>, <<1489845, -390715>>>>
          [] z = "VIC1" -> <<<<1404671, -396450>>, <<1504721, -334865>>>>
          [] z = "WA1"  -> <<<<1124194, -356379>>, <<1295001, -132236>>>>]

\* boilerplate that carries a capacity entry of its own
ZONE_BOILERPLATE_WITH_CAPACITY ==
    [contributors |-> <<"https://github.com/brandongalbraith",
                        "https://github.com/jarek",
                        "https://github.com/corradio",
                        "https://github.com/AnthonyBriggs">>,
     flag_file_name |-> "au.png",
     parsers |-> [price |-> "AU.fetch_price", production |-> "AU.fetch_production"],
     timezone |-> "None",
     capacity |-> [k \in {} |-> 0]]

ZONE_BOILERPLATE ==
    [contributors |-> <<"https://github.com/brandongalbraith",
                        "https://github.com/jarek",
                        "https://github.com/corradio",
                        "https://github.com/AnthonyBriggs">>,
     flag_file_name |-> "au.png",
     parsers |-> [price |-> "AU.fetch_price", production |-> "AU.fetch_production"],
     timezone |-> "None"]

\* dt.timedelta(days=7)
DAYS == 7

(***************************************************************************)
(* Texts and json.loads.                                                   *)
(***************************************************************************)
NoneText    == [kind |-> "None",    obj |-> FALSE, reg |-> <<>>]
EmptyText   == [kind |-> "empty",   obj |-> FALSE, reg |-> <<>>]
GarbageText == [kind |-> "garbage", obj |-> FALSE, reg |-> <<>>]
\* valid JSON that is no object, such as null
JsonNull    == [kind |-> "json",    obj |-> FALSE, reg |-> <<>>]
\* the JSON text of a registry
JsonOf(reg) == [kind |-> "json",    obj |-> TRUE,  reg |-> reg]

\* json.loads: ok is FALSE where it raises JSONDecodeError
json_loads(text) ==
    [ok |-> text.kind = "json", value |-> [obj |-> text.obj, reg |-> text.reg]]

\* bool(facility_data): None and the empty string are false
Truthy(text) == text.kind \notin {"None", "empty"}

NoValue == [obj |-> FALSE, reg |-> <<>>]

(***************************************************************************)
(* class OpenNEMZone.                                                      *)
(***************************************************************************)
None == <<>>

startswith(s, prefix) == Len(s) >= 2 /\ s[1] = prefix

EmptyDict == [k \in {} |-> DecZero]

\* OpenNEMZone.__init__
OpenNEMZone(zone) == [zone |-> zone, capacity |-> EmptyDict]

\* gen_type_of without the collapse of the bioenergy_ prefix
gen_type_of_no_biomass(fuel_tech) ==
    LET g1 == IF startswith(fuel_tech, "gas") THEN <<"gas">> ELSE fuel_tech
        g2 == IF g1 = <<"battery", "discharging">> THEN <<"battery storage">> ELSE g1
        g4 == IF g2 = <<"distillate">> THEN <<"oil">> ELSE g2
    IN g4

\* the fuel type a generating unit is booked under (lines 110-117)
gen_type_of(fuel_tech) ==
    LET g1 == IF startswith(fuel_tech, "gas") THEN <<"gas">> ELSE fuel_tech
        g2 == IF g1 = <<"battery", "discharging">> THEN <<"battery storage">> ELSE g1
        g3 == IF startswith(g2, "bioenergy") THEN <<"biomass">> ELSE g2
        g4 == IF g3 = <<"distillate">> THEN <<"oil">> ELSE g3
    IN g4

\* skipped that lets pumps through
skipped_without_pumps(gen_info) ==
    \/ gen_info.fuel_tech = None
    \/ gen_info.fuel_tech = <<"battery", "charging">>

\* the units the loop skips with continue (lines 104-109)
skipped(gen_info) ==
    \/ gen_info.fuel_tech = None
    \/ gen_info.fuel_tech = <<"battery", "charging">>
    \/ gen_info.fuel_tech = <<"pumps">>

\* self.capacity[gen_type] += decimal.Decimal(gen_info['registered_capacity'])
\* on a defaultdict(decimal.Decimal)
add_capacity(capacity, gen_type, amount) ==
    [k \in DOMAIN capacity \cup {gen_type} |->
        IF k = gen_type
        THEN DecAdd(IF gen_type \in DOMAIN capacity THEN capacity[gen_type] ELSE DecZero,
                    Decimal(amount))
        ELSE capacity[k]]

\* the body of the loop of update_capacity, for one unit
update_unit(capacity, gen_info) ==
    IF skipped(gen_info) THEN capacity
    ELSE add_capacity(capacity, gen_type_of(gen_info.fuel_tech),
                      gen_info.registered_capacity)

\* OpenNEMZone.update_capacity, on the first n units of duid_data
RECURSIVE update_capacity_upto(_, _, _)
update_capacity_upto(capacity, duid_data, n) ==
    IF n = 0 THEN capacity
    ELSE update_unit(update_capacity_upto(capacity, duid_data, n - 1), duid_data[n])

update_capacity(capacity, duid_data) ==
    update_capacity_upto(capacity, duid_data, Len(duid_data))

\* OpenNEMZone.update_from_facility_data
update_from_facility_data(self, data) ==
    [self EXCEPT !.capacity = update_capacity(self.capacity, data.duid_data)]

\* dict.update
dict_update(d, other) ==
    [k \in DOMAIN d \cup DOMAIN other |-> IF k \in DOMAIN other THEN other[k] ELSE d[k]]

\* OpenNEMZone.output
output(self) ==
    dict_update(
        [bounding_box |-> STATE_BOUNDING_BOXES[self.zone],
         capacity |-> [k \in DOMAIN self.capacity |->
                          Round2(NearestDouble(self.capacity[k]))]],
        ZONE_BOILERPLATE)

(***************************************************************************)
(* Inputs: registries the server may return or the cache may hold.         *)
(***************************************************************************)
Unit(fuel_tech, capacity) == [fuel_tech |-> fuel_tech, registered_capacity |-> capacity]
Facility(state, region_id, duid_data) ==
    [state |-> state, region_id |-> region_id, duid_data |-> duid_data]

\* all sequences over S of length at most n
SeqsUpTo(S, n) == UNION {[1..k -> S] : k \in 0..n}

\* registries of the whole-script specification
HydroStation ==
    Facility("Commissioned", "NSW1",
             <<Unit(<<"hydro">>, JsonFloat(2400, -1)), Unit(<<"pumps">>, JsonFloat(2400, -1))>>)
BatteryStation ==
    Facility("Commissioned", "SA1",
             <<Unit(<<"battery", "discharging">>, JsonFloat(1000, -1)),
               Unit(<<"battery", "charging">>, JsonFloat(1200, -1))>>)
RetiredStation ==
    Facility("Retired", "NSW1", <<Unit(<<"coal", "black">>, JsonFloat(5000, -1))>>)
TerritoryStation ==
    Facility("Commissioned", "NT1", <<Unit(<<"gas", "ocgt">>, JsonFloat(1005, -1))>>)
RetiredTerritoryStation ==
    Facility("Retired", "NT1", <<Unit(<<"gas", "ocgt">>, JsonFloat(1005, -1))>>)

ScriptRegistries ==
    { <<>>,
      <<HydroStation, RetiredStation, BatteryStation>>,
      <<HydroStation, TerritoryStation, BatteryStation>>,
      <<RetiredTerritoryStation, BatteryStation>> }

\* the bodies an HTTP response may carry
ScriptResponses ==
    {EmptyText, GarbageText, JsonNull} \cup {JsonOf(r) : r \in ScriptRegistries}

\* ages (in days) of a cache file left by earlier runs
InitialAges == {0, DAYS - 1, DAYS, DAYS + 1}

\* registries of the aggregation specification: every sequence of at most
\* MaxFacilities facilities over a small pool, and every facility of at most
\* MaxUnits units over every kind of fuel_tech, alone or after a gas station
AggFuels ==
    { <<"gas", "ocgt">>, <<"gas">>, <<"bioenergy", "biogas">>, <<"distillate">>,
      <<"battery", "discharging">>, <<"battery", "charging">>, <<"pumps">>,
      <<"hydro">>, <<"coal", "black">>, None }

AggUnits == {Unit(f, JsonFloat(1005, -1)) : f \in AggFuels}

CoreDuidData ==
    { <<>>,
      <<Unit(<<"hydro">>, JsonFloat(2400, -1))>>,
      <<Unit(<<"pumps">>, JsonFloat(2400, -1)), Unit(<<"hydro">>, JsonFloat(725, -2))>> }

CoreFacilities ==
    {Facility(p[1], p[2], d) :
        p \in {<<"Commissioned", "NSW1">>, <<"Retired", "NSW1">>, <<"Commissioned", "VIC1">>},
        d \in CoreDuidData}

GasStation ==
    Facility("Commissioned", "NSW1", <<Unit(<<"gas", "ccgt">>, JsonFloat(2400, -1))>>)

AggRegistries ==
    SeqsUpTo(CoreFacilities, MaxFacilities)
    \cup {<<Facility("Commissioned", "NSW1", d)>> : d \in SeqsUpTo(AggUnits, MaxUnits)}
    \cup {<<GasStation, Facility("Commissioned", "NSW1", d)>> :
             d \in SeqsUpTo(AggUnits, MaxUnits)}

AggResponses == {JsonOf(r) : r \in AggRegistries}

\* registries of the numeric specification: one or two hydro stations of NSW1
\* whose units have capacities 0.05, 0.125 and 0.145
NumUnits == {Unit(<<"hydro">>, JsonFloat(n, -3)) : n \in {50, 125, 145}}

NumFacilities == {Facility("Commissioned", "NSW1", d) : d \in SeqsUpTo(NumUnits, 2)}

NumResponses == {JsonOf(r) : r \in SeqsUpTo(NumFacilities, 2)}

(***************************************************************************)
(* The script, one action per step.                                        *)
(***************************************************************************)
\* LoadCache with the age test written <= instead of <
LoadCacheInclusive ==
    /\ pc = "load"
    /\ IF cacheExists /\ clock - cacheMtime <= DAYS
       THEN LET parsed == json_loads(cacheText)
            IN /\ facility_data' = IF parsed.ok THEN cacheText ELSE NoneText
               /\ facilities' = IF parsed.ok THEN parsed.value ELSE facilities
       ELSE UNCHANGED <<facility_data, facilities>>
    /\ pc' = "refresh"
    /\ UNCHANGED <<clock, cacheVars, exc, http_requests, zones, idx, printed>>

\* LoadCache that touches the file it reads
LoadCacheTouching ==
    /\ pc = "load"
    /\ IF cacheExists /\ clock - cacheMtime < DAYS
       THEN LET parsed == json_loads(cacheText)
            IN /\ facility_data' = IF parsed.ok THEN cacheText ELSE NoneText
               /\ facilities' = IF parsed.ok THEN parsed.value ELSE facilities
               /\ cacheMtime' = clock
       ELSE UNCHANGED <<facility_data, facilities, cacheMtime>>
    /\ pc' = "refresh"
    /\ UNCHANGED <<clock, cacheExists, cacheText, exc, http_requests, zones, idx, printed>>

\* lines 135-146: try and load from cache
LoadCache ==
    /\ pc = "load"
    /\ IF cacheExists /\ clock - cacheMtime < DAYS
       THEN LET parsed == json_loads(cacheText)
            IN /\ facility_data' = IF parsed.ok THEN cacheText ELSE NoneText
               /\ facilities' = IF parsed.ok THEN parsed.value ELSE facilities
       ELSE UNCHANGED <<facility_data, facilities>>
    /\ pc' = "refresh"
    /\ UNCHANGED <<clock, cacheVars, exc, http_requests, zones, idx, printed>>

\* line 149, condition false: the cached data is kept
KeepCached ==
    /\ pc = "refresh"
    /\ Truthy(facility_data)
    /\ pc' = "parse"
    /\ UNCHANGED <<clock, cacheVars, exc, facility_data, facilities, http_requests,
                   zones, idx, printed>>

\* Fetch that writes the cache only when the body parses
FetchValidating(Responses) ==
    /\ pc = "refresh"
    /\ ~Truthy(facility_data)
    /\ \E text \in Responses :
          /\ facility_data' = text
          /\ IF json_loads(text).ok
             THEN /\ cacheText' = text
                  /\ cacheExists' = TRUE
                  /\ cacheMtime' = clock
             ELSE UNCHANGED cacheVars
    /\ http_requests' = http_requests + 1
    /\ pc' = "parse"
    /\ UNCHANGED <<clock, exc, facilities, zones, idx, printed>>

\* lines 149-154: requests.get answers, and the body is written to the cache
Fetch(Responses) ==
    /\ pc = "refresh"
    /\ ~Truthy(facility_data)
    /\ \E text \in Responses :
          /\ facility_data' = text
          /\ cacheText' = text
    /\ http_requests' = http_requests + 1
    /\ cacheExists' = TRUE
    /\ cacheMtime' = clock
    /\ pc' = "parse"
    /\ UNCHANGED <<clock, exc, facilities, zones, idx, printed>>

FetchScript == Fetch(ScriptResponses)

\* line 150: requests.get raises
FetchFails ==
    /\ pc = "refresh"
    /\ ~Truthy(facility_data)
    /\ http_requests' = http_requests + 1
    /\ pc' = "failed"
    /\ exc' = "RequestException"
    /\ UNCHANGED <<clock, cacheVars, facility_data, facilities, zones, idx, printed>>

\* Parse that goes back to fetch again when the data does not parse
ParseRetrying ==
    /\ pc = "parse"
    /\ LET parsed == json_loads(facility_data)
       IN IF parsed.ok
          THEN /\ facilities' = parsed.value
               /\ zones' = [z \in DOMAIN zone_map |-> OpenNEMZone(z)]
               /\ pc' = "loop"
               /\ UNCHANGED <<exc, facility_data>>
          ELSE /\ pc' = "refresh"
               /\ facility_data' = NoneText
               /\ UNCHANGED <<exc, facilities, zones>>
    /\ UNCHANGED <<clock, cacheVars, http_requests, idx, printed>>

\* lines 156-159: parse the data and construct the zones
Parse ==
    /\ pc = "parse"
    /\ LET parsed == json_loads(facility_data)
       IN IF parsed.ok
          THEN /\ facilities' = parsed.value
               /\ zones' = [z \in DOMAIN zone_map |-> OpenNEMZone(z)]
               /\ pc' = "loop"
               /\ UNCHANGED exc
          ELSE /\ pc' = "failed"
               /\ exc' = "JSONDecodeError"
               /\ UNCHANGED <<facilities, zones>>
    /\ UNCHANGED <<clock, cacheVars, facility_data, http_requests, idx, printed>>

\* a status test that lets every facility through
countedAlways(facility) == TRUE

\* line 165
counted(facility) == facility.state = "Commissioned"

\* lines 165-169: the body of the loop, for a facility of a known region
add_facility(zs, facility) ==
    IF counted(facility)
    THEN [zs EXCEPT ![facility.region_id] = update_from_facility_data(@, facility)]
    ELSE zs

\* the zones after the loop has run over the first n facilities of reg
RECURSIVE aggregate_upto(_, _, _)
aggregate_upto(zs, reg, n) ==
    IF n = 0 THEN zs ELSE add_facility(aggregate_upto(zs, reg, n - 1), reg[n])

aggregate(reg) ==
    aggregate_upto([z \in DOMAIN zone_map |-> OpenNEMZone(z)], reg, Len(reg))

\* LoopStep that skips a facility of an unknown region instead of failing
LoopStepLenient ==
    /\ pc = "loop"
    /\ IF ~facilities.obj
       THEN /\ pc' = "failed"
            /\ exc' = "AttributeError"
            /\ UNCHANGED <<zones, idx>>
       ELSE /\ idx < Len(facilities.reg)
            /\ LET facility == facilities.reg[idx + 1]
               IN /\ zones' = IF facility.region_id \in DOMAIN zones
                              THEN add_facility(zones, facility)
                              ELSE zones
                  /\ idx' = idx + 1
                  /\ UNCHANGED <<pc, exc>>
    /\ UNCHANGED <<clock, cacheVars, facility_data, facilities, http_requests, printed>>

\* lines 163-169: one iteration of the loop over facilities.items()
LoopStep ==
    /\ pc = "loop"
    /\ IF ~facilities.obj
       THEN /\ pc' = "failed"
            /\ exc' = "AttributeError"
            /\ UNCHANGED <<zones, idx>>
       ELSE /\ idx < Len(facilities.reg)
            /\ LET facility == facilities.reg[idx + 1]
               IN IF counted(facility) /\ facility.region_id \notin DOMAIN zones
                  THEN /\ pc' = "failed"
                       /\ exc' = "KeyError"
                       /\ UNCHANGED <<zones, idx>>
                  ELSE /\ zones' = add_facility(zones, facility)
                       /\ idx' = idx + 1
                       /\ UNCHANGED <<pc, exc>>
    /\ UNCHANGED <<clock, cacheVars, facility_data, facilities, http_requests, printed>>

\* line 172
json_zones == [k \in {zone_map[z] : z \in DOMAIN zones} |->
                  output(zones[CHOOSE z \in DOMAIN zones : zone_map[z] = k])]

\* lines 171-174: the loop is exhausted, print the zones
Output ==
    /\ pc = "loop"
    /\ facilities.obj
    /\ idx = Len(facilities.reg)
    /\ printed' = Append(printed, json_zones)
    /\ pc' = "done"
    /\ UNCHANGED <<clock, cacheVars, exc, facility_data, facilities, http_requests,
                   zones, idx>>

\* the process has ended; the script is run again
StartRun ==
    /\ pc \in {"done", "failed"}
    /\ pc' = "load"
    /\ exc' = "none"
    /\ facility_data' = NoneText
    /\ facilities' = NoValue
    /\ http_requests' = 0
    /\ zones' = <<>>
    /\ idx' = 0
    /\ printed' = <<>>
    /\ UNCHANGED <<clock, cacheVars>>

\* a day passes
Tick ==
    /\ clock < MaxClock
    /\ clock' = clock + 1
    /\ UNCHANGED <<cacheVars, pc, exc, facility_data, facilities, http_requests,
                   zones, idx, printed>>

\* the state a fresh process starts in
Started ==
    /\ pc = "load"
    /\ exc = "none"
    /\ facility_data = NoneText
    /\ facilities = NoValue
    /\ http_requests = 0
    /\ zones = <<>>
    /\ idx = 0
    /\ printed = <<>>

Init ==
    /\ clock = 0
    /\ \/ /\ cacheExists = FALSE
          /\ cacheMtime = 0
          /\ cacheText = NoneText
       \/ /\ cacheExists = TRUE
          /\ cacheMtime \in {-a : a \in InitialAges}
          /\ cacheText \in ScriptResponses
    /\ Started

Next ==
    \/ LoadCache
    \/ KeepCached
    \/ FetchScript
    \/ FetchFails
    \/ Parse
    \/ LoopStep
    \/ Output
    \/ StartRun
    \/ Tick

Spec == Init /\ [][Next]_vars

(***************************************************************************)
(* A single run without a cache file, on a larger family of registries.    *)
(***************************************************************************)
InitNoCache ==
    /\ clock = 0
    /\ cacheExists = FALSE
    /\ cacheMtime = 0
    /\ cacheText = NoneText
    /\ Started

FetchAgg == Fetch(AggResponses)

NextAgg ==
    \/ LoadCache
    \/ FetchAgg
    \/ Parse
    \/ LoopStep
    \/ Output

SpecAgg == InitNoCache /\ [][NextAgg]_vars

FetchNum == Fetch(NumResponses)

NextNum ==
    \/ LoadCache
    \/ FetchNum
    \/ Parse
    \/ LoopStep
    \/ Output

SpecNum == InitNoCache /\ [][NextNum]_vars

(***************************************************************************)
(* Claims about the cache and the HTTP fetch, under Spec.                  *)
(***************************************************************************)
\* the cache file exists, is less than 7 days old and holds text that parses as JSON
CacheValid ==
    /\ cacheExists
    /\ clock - cacheMtime < 7
    /\ cacheText.kind = "json"

Parses(text) == text.kind = "json"

\* C1: the step that consults the cache keeps the cached text as facility_data
\* exactly when the cache file exists, is strictly less than 7 days old and holds
\* non-empty text that parses as JSON; the step that follows makes no HTTP
\* request in that case and makes one in every other case.
C1_CacheUsedExactlyWhenValid ==
    [][ /\ (pc = "load" /\ pc' = "refresh") =>
              IF CacheValid
              THEN facility_data' = cacheText /\ Truthy(facility_data')
              ELSE ~Truthy(facility_data')
        /\ (pc = "refresh" /\ pc' # "refresh") =>
              IF Truthy(facility_data)
              THEN /\ http_requests' = 0
                   /\ facility_data' = facility_data
                   /\ pc' = "parse"
              ELSE http_requests' = 1 ]_vars

\* a cache of age 6 days has been accepted
C1_Witness ==
    /\ pc = "refresh"
    /\ Truthy(facility_data)
    /\ facility_data = cacheText
    /\ clock - cacheMtime = 6

\* C7: a run never makes more than one HTTP request: none when the cached data is
\* kept and exactly one otherwise; after the request nothing in the run requests
\* again, and data that does not parse ends the run.
C7_AtMostOneRequest ==
    [][ /\ http_requests' <= 1
        /\ (pc = "refresh" /\ pc' # "refresh") =>
              http_requests' = IF Truthy(facility_data) THEN 0 ELSE 1
        /\ (pc \in {"parse", "loop", "done", "failed"} /\ pc' # "load") =>
              http_requests' = http_requests
        /\ (pc = "parse" /\ ~Parses(facility_data) /\ pc' # "parse") => pc' = "failed"
        /\ pc = "failed" => pc' \in {"failed", "load"} ]_vars

\* a response that does not parse has ended the run after its single request
C7_Witness ==
    /\ pc = "failed"
    /\ exc = "JSONDecodeError"
    /\ http_requests = 1

\* C8: the cache file changes only in the step that fetches, which leaves it
\* holding the fetched text with the current time as modification time; a step
\* that accepts the cache finds it less than 7 days old and leaves it untouched.
C8_CacheWrittenOnlyByFetch ==
    [][ /\ (cacheVars' # cacheVars) =>
              /\ pc = "refresh"
              /\ ~Truthy(facility_data)
              /\ http_requests' = http_requests + 1
              /\ cacheExists'
              /\ cacheText' = facility_data'
              /\ cacheMtime' = clock
        /\ (pc = "load" /\ pc' = "refresh" /\ Truthy(facility_data')) =>
              /\ clock - cacheMtime < 7
              /\ cacheVars' = cacheVars
        /\ (http_requests' = 0 /\ pc' # "load" /\ pc # "load") =>
              cacheVars' = cacheVars ]_vars

\* a run has finished on a cache that an earlier run fetched on an earlier day
C8_Witness ==
    /\ pc = "done"
    /\ http_requests = 0
    /\ cacheMtime > 0
    /\ clock > cacheMtime

\* C9: a run that ends in JSONDecodeError has made its request, has printed
\* nothing and leaves the cache holding the very text that failed to parse; the
\* text was written, with the current time, in the fetching step; a later run
\* rejects a cache that does not parse, whatever its age, and fetches.
C9_InvalidResponseCachedThenRejected ==
    /\ [](pc = "failed" /\ exc = "JSONDecodeError" =>
             /\ printed = <<>>
             /\ http_requests = 1
             /\ cacheExists
             /\ cacheText = facility_data
             /\ ~Parses(cacheText)
             /\ cacheMtime <= clock)
    /\ [][ /\ (pc = "refresh" /\ pc' = "parse" /\ http_requests' = 1) =>
                 /\ cacheExists'
                 /\ cacheText' = facility_data'
                 /\ cacheMtime' = clock
           /\ (pc = "parse" /\ ~Parses(facility_data) /\ pc' # "parse") =>
                 /\ pc' = "failed"
                 /\ printed' = <<>>
                 /\ cacheVars' = cacheVars
           /\ (pc = "load" /\ pc' = "refresh" /\ ~Parses(cacheText)) =>
                 ~Truthy(facility_data')
           /\ (pc = "refresh" /\ ~Truthy(facility_data) /\ pc' # "refresh") =>
                 http_requests' = 1 ]_vars

\* a run has rejected an unparseable cache that a run of this behaviour wrote
\* less than 7 days before
C9_Witness ==
    /\ pc = "refresh"
    /\ ~Truthy(facility_data)
    /\ cacheExists
    /\ cacheText = GarbageText
    /\ cacheMtime > 0
    /\ clock - cacheMtime < 7

(***************************************************************************)
(* Claims about the loop and the output, under Spec.                       *)
(***************************************************************************)
MappedCodes == {"NSW1", "QLD1", "SA1", "TAS1", "VIC1", "WA1"}

\* positions of the Commissioned facilities whose region is not a mapped zone code
Unmappable(reg) ==
    {i \in 1..Len(reg) :
        reg[i].state = "Commissioned" /\ reg[i].region_id \notin MappedCodes}

\* C10: the loop never gets past a Commissioned facility of an unmapped region:
\* the run fails there with KeyError and prints nothing; the loop fails at no
\* other facility, so an unmapped facility that is not Commissioned is passed.
C10_UnmappedRegionAborts ==
    (pc \in {"loop", "done", "failed"} /\ facilities.obj) =>
        LET bad == Unmappable(facilities.reg)
        IN /\ \A i \in bad : idx < i
           /\ pc = "failed" => /\ exc = "KeyError"
                               /\ idx + 1 \in bad
                               /\ printed = <<>>
           /\ pc = "done" => /\ bad = {}
                             /\ idx = Len(facilities.reg)
                             /\ Len(printed) = 1

\* the run failed at a facility of NT1 after it had aggregated another zone
C10_Witness ==
    /\ pc = "failed"
    /\ exc = "KeyError"
    /\ facilities.reg[idx + 1].region_id = "NT1"
    /\ zones["NSW1"].capacity # EmptyDict
    /\ printed = <<>>

InverseCode(k) ==
    CASE k = "AUS-NSW" -> "NSW1"
      [] k = "AUS-QLD" -> "QLD1"
      [] k = "AUS-SA"  -> "SA1"
      [] k = "AUS-TAS" -> "TAS1"
      [] k = "AUS-VIC" -> "VIC1"
      [] k = "AUS-WA"  -> "WA1"

\* C6: a run that finishes has printed one document with exactly the six AUS-*
\* keys; the entry of each holds the bounding box of its zone, the rounded
\* capacity of its zone (empty for a zone without facilities) and the four
\* boilerplate fields, and nothing else.
C6_OneEntryPerZone ==
    pc = "done" =>
        /\ Len(printed) = 1
        /\ DOMAIN printed[1] =
              {"AUS-NSW", "AUS-QLD", "AUS-SA", "AUS-TAS", "AUS-VIC", "AUS-WA"}
        /\ \A k \in DOMAIN printed[1] :
              LET entry == printed[1][k]
                  zone == zones[InverseCode(k)]
              IN /\ DOMAIN entry = {"bounding_box", "capacity", "contributors",
                                    "flag_file_name", "parsers", "timezone"}
                 /\ entry.bounding_box = STATE_BOUNDING_BOXES[InverseCode(k)]
                 /\ DOMAIN entry.capacity = DOMAIN zone.capacity
                 /\ \A f \in DOMAIN zone.capacity :
                       entry.capacity[f] = Round2(NearestDouble(zone.capacity[f]))
                 /\ entry.contributors = ZONE_BOILERPLATE.contributors
                 /\ entry.flag_file_name = "au.png"
                 /\ entry.parsers = ZONE_BOILERPLATE.parsers
                 /\ entry.timezone = "None"

\* a document was printed in which one zone has capacity and another has none
C6_Witness ==
    /\ pc = "done"
    /\ Len(printed) = 1
    /\ DOMAIN printed[1]["AUS-NSW"].capacity = {<<"hydro">>}
    /\ printed[1]["AUS-NSW"].capacity[<<"hydro">>] = 24000
    /\ DOMAIN printed[1]["AUS-WA"].capacity = {}

(***************************************************************************)
(* Claims about the aggregation, under SpecAgg.                            *)
(***************************************************************************)
\* the part of the registry the loop has consumed
Consumed == SubSeq(facilities.reg, 1, idx)

InLoop == pc \in {"loop", "done", "failed"} /\ facilities.obj

IsCommissioned(facility) == facility.state = "Commissioned"

OnlyCommissioned(reg) == SelectSeq(reg, IsCommissioned)

\* C2: at every point of the loop the zones are those the loop computes from
\* the consumed facilities with every non-Commissioned facility removed.
C2_OnlyCommissionedCounted ==
    InLoop => zones = aggregate(OnlyCommissioned(Consumed))

\* the loop has consumed a Retired facility with a hydro unit after it had
\* booked hydro capacity to the same zone
C2_Witness ==
    /\ pc = "done"
    /\ idx = 2
    /\ facilities.reg[1].state = "Commissioned"
    /\ facilities.reg[2].state = "Retired"
    /\ facilities.reg[2].region_id = facilities.reg[1].region_id
    /\ Len(facilities.reg[2].duid_data) = 1
    /\ facilities.reg[2].duid_data[1].fuel_tech = <<"hydro">>
    /\ <<"hydro">> \in DOMAIN zones[facilities.reg[1].region_id].capacity

\* a unit that is no generation: no fuel_tech, battery_charging or pumps
NonGeneration(unit) ==
    unit.fuel_tech \in {None, <<"battery", "charging">>, <<"pumps">>}

Generation(unit) == ~NonGeneration(unit)

\* the fuel type the capacity of a unit is credited to
NormalizedFuel(fuel_tech) ==
    CASE Len(fuel_tech) >= 2 /\ fuel_tech[1] = "gas"       -> <<"gas">>
      [] Len(fuel_tech) >= 2 /\ fuel_tech[1] = "bioenergy" -> <<"biomass">>
      [] fuel_tech = <<"distillate">>                      -> <<"oil">>
      [] fuel_tech = <<"battery", "discharging">>          -> <<"battery storage">>
      [] OTHER                                             -> fuel_tech

\* the generating units of the Commissioned facilities of a zone among the
\* first n facilities of reg, in document order
RECURSIVE CountedUnits(_, _, _)
CountedUnits(zone, reg, n) ==
    IF n = 0 THEN <<>>
    ELSE CountedUnits(zone, reg, n - 1) \o
         (IF IsCommissioned(reg[n]) /\ reg[n].region_id = zone
          THEN SelectSeq(reg[n].duid_data, Generation)
          ELSE <<>>)

\* the capacities of the units of a sequence that are credited to fuel
CreditedTo(units, fuel) ==
    LET Credited(u) == NormalizedFuel(u.fuel_tech) = fuel
    IN SelectSeq(units, Credited)

RECURSIVE DecimalSum(_, _)
DecimalSum(units, n) ==
    IF n = 0 THEN DecZero
    ELSE DecAdd(DecimalSum(units, n - 1), Decimal(units[n].registered_capacity))

\* C3: at every point of the loop the capacity of a zone has exactly the
\* normalized fuel types of its counted units as keys, each with the sum of the
\* capacities of the units credited to it; no key starts with gas_ or
\* bioenergy_ or is distillate or battery_discharging.
C3_CreditedToNormalizedFuel ==
    InLoop =>
        \A z \in DOMAIN zones :
            LET units == CountedUnits(z, facilities.reg, idx)
                cap == zones[z].capacity
            IN /\ DOMAIN cap = {NormalizedFuel(units[i].fuel_tech) : i \in 1..Len(units)}
               /\ \A k \in DOMAIN cap :
                     /\ cap[k] = DecimalSum(CreditedTo(units, k), Len(CreditedTo(units, k)))
                     /\ ~(Len(k) >= 2 /\ k[1] \in {"gas", "bioenergy"})
                     /\ k \notin {<<"distillate">>, <<"battery", "discharging">>}

\* gas_ccgt and gas_ocgt of two stations have been added under gas, next to biomass
C3_Witness ==
    /\ pc = "done"
    /\ idx = 2
    /\ facilities.reg[1] = GasStation
    /\ Len(facilities.reg[2].duid_data) = 2
    /\ facilities.reg[2].duid_data[1].fuel_tech = <<"gas", "ocgt">>
    /\ facilities.reg[2].duid_data[2].fuel_tech = <<"bioenergy", "biogas">>
    /\ DOMAIN zones["NSW1"].capacity = {<<"gas">>, <<"biomass">>}
    /\ zones["NSW1"].capacity[<<"gas">>] = Dec(<<3, 4, 0, 5>>, -1)

WithoutNonGeneration(reg) ==
    [i \in 1..Len(reg) |->
        [reg[i] EXCEPT !.duid_data = SelectSeq(reg[i].duid_data, Generation)]]

\* C4: at every point of the loop the zones are those the loop computes from
\* the consumed facilities with every unit without fuel_tech, every
\* battery_charging unit and every pumps unit removed; none of these is a key.
C4_NonGenerationExcluded ==
    InLoop =>
        /\ zones = aggregate(WithoutNonGeneration(Consumed))
        /\ \A z \in DOMAIN zones :
              DOMAIN zones[z].capacity \cap
                 {None, <<"battery", "charging">>, <<"pumps">>} = {}

\* a station with a pumps unit followed by a hydro unit was booked as hydro only
C4_Witness ==
    /\ pc = "done"
    /\ idx = 1
    /\ facilities.reg[1].state = "Commissioned"
    /\ Len(facilities.reg[1].duid_data) = 2
    /\ facilities.reg[1].duid_data[1].fuel_tech = <<"pumps">>
    /\ facilities.reg[1].duid_data[2].fuel_tech = <<"hydro">>
    /\ DOMAIN zones[facilities.reg[1].region_id].capacity = {<<"hydro">>}

(***************************************************************************)
(* The claim about the arithmetic, under SpecNum.                          *)
(***************************************************************************)
\* a + b without rounding
ExactAdd(a, b) ==
    LET e == IF a.exp < b.exp THEN a.exp ELSE b.exp
    IN Dec(AddDigs(Rescale(a, e), Rescale(b, e)), e)

RECURSIVE ExactSum(_, _)
ExactSum(units, n) ==
    IF n = 0 THEN DecZero
    ELSE ExactAdd(ExactSum(units, n - 1), Decimal(units[n].registered_capacity))

\* a decimal rounded to 2 places, ties to even; in hundredths
RoundedOnce(v) ==
    LET h == IF v.exp > -2 THEN v.digs \o Zeros(v.exp + 2)
             ELSE RoundDrop(v.digs, -v.exp - 2)
    IN DigsToInt(h, Len(h))

\* every capacity of the printed document is the exact sum of the registered
\* capacities of the counted units of its zone and fuel type, rounded once to 2
\* decimal places
C5_ExactSumRoundedOnce ==
    pc = "done" =>
        \A z \in DOMAIN zones :
            LET units == CountedUnits(z, facilities.reg, Len(facilities.reg))
                cap == printed[1][zone_map[z]].capacity
            IN /\ DOMAIN cap = {NormalizedFuel(units[i].fuel_tech) : i \in 1..Len(units)}
               /\ \A k \in DOMAIN cap :
                     cap[k] = RoundedOnce(ExactSum(CreditedTo(units, k),
                                                   Len(CreditedTo(units, k))))

\* the printed capacities are those of the same registry processed in the
\* opposite order
C5_OrderIndependent ==
    pc = "done" =>
        LET n == Len(facilities.reg)
            reversed == [i \in 1..n |->
                            LET f == facilities.reg[n + 1 - i]
                                m == Len(f.duid_data)
                            IN [f EXCEPT !.duid_data =
                                   [j \in 1..m |-> f.duid_data[m + 1 - j]]]]
            other == aggregate(reversed)
        IN \A z \in DOMAIN zones :
              printed[1][zone_map[z]].capacity = output(other[z]).capacity

\* C5: every capacity of the printed document is the exact sum of the
\* registered capacities of the counted units of its zone and fuel type, rounded
\* to 2 decimal places once, after the summation, and it is the same whatever
\* the order in which the facilities and units are processed.
C5_ExactSumIndependentOfOrder ==
    /\ C5_ExactSumRoundedOnce
    /\ C5_OrderIndependent

====
